---- MODULE Spec2Model ----
(***************************************************************************)
(* The ingestion core of infertrace: the Collector of                      *)
(* tasks/phase-03-collector-concurrency.md (NewCollector, Start, Stop)     *)
(* with the two optimisations of tasks/phase-09-benchmarking-profiling.md  *)
(* applied (Ingest through the sync.Pool, ingestWorker batching its        *)
(* writes).  The buffered channel ingestQueue is the admission queue, the  *)
(* goroutines started by Start are the workers, c.storage is the sink.     *)
(*                                                                         *)
(* A goroutine is modelled by its position: a worker is at its select, or  *)
(* inside one of the three WriteBatch calls of the loop.  An unrecovered   *)
(* Go panic ends the process: no action is enabled once panicked is set.   *)
(*                                                                         *)
(* The program of cmd/collector/main.go (NewSpan, ParseTraceID) is the     *)
(* second, independent part: its variables are mainPc, mainSpan, args,    *)
(* traceID and err, its specification is MainSpec.                         *)
(***************************************************************************)
EXTENDS Integers, Sequences, FiniteSets

\* ---------------------------------------------------------------- bounds
\* NewCollector(workers, queueSize): the two arguments, both taken positive
\* (a buffered channel, at least one worker per Start).
WorkerCount == 1
QueueCapacity == 2
\* The batch threshold, 256 in ingestWorker, scaled down; above QueueCapacity,
\* so that a queue-full of spans can sit in one batch below the threshold.
MaxBatchSize == 3
\* Number of Ingest calls explored.
MaxSpans == 4
\* Number of worker goroutines the Start calls explored launch in total: with
\* WorkerCount = 1, a second Start adds a second worker on the same queue.
MaxWorkers == 2

\* Longest string given to NewSpan and ParseTraceID, and the latest clock
\* reading time.Now().UnixNano() returns.
MaxLen == 2
MaxTime == 1

Workers == 1 .. MaxWorkers
SpanIDs == 1 .. MaxSpans

\* Go strings, as sequences of characters; <<>> is "".
Alphabet == {"a", "-"}
Strings == UNION {[1 .. n -> Alphabet] : n \in 0 .. MaxLen}
\* What uuid.New().String() can return: a string that is never empty.
UUIDStrings == Strings \ {<<>>}
Times == 0 .. MaxTime

VARIABLES
    workers,       \* c.workers, the first argument of NewCollector
    queueSize,     \* cap(c.ingestQueue), the second argument of NewCollector
    ingestQueue,   \* chan *proto.Span: the buffered records, head first
    closed,        \* the channel has been closed
    spanPool,      \* sync.Pool: the records that were Put and not taken again
    nextSlot,      \* allocations made by spanPool.New so far, plus one
    wg,            \* sync.WaitGroup counter
    numStarts,     \* Start calls made
    pc,            \* worker -> "idle" | "select" | "flushFull" | "flushTick" | "flushFinal" | "done"
    batch,         \* worker -> its batch slice
    stopPc,        \* the first Stop call: "idle" | "waiting" (in wg.Wait) | "returned"
    stopCalls,     \* Stop calls made
    panicked,      \* "" or the message of the panic that ended the process
    nextSpan,      \* SpanID of the next span a producer offers
    result,        \* SpanID -> what its Ingest call gave: "none" | "ok" | "QueueFull" | "panic"
    dequeued,      \* worker -> the records it received, in order (history)
    written,       \* worker -> its completed WriteBatch calls, [batch, ok] (history)
    mainPc,        \* main(): "start" | "newSpan" | "parsed" | "done"
    mainSpan,      \* main(): its variable span, the *Span NewSpan returned
    args,          \* main(): the arguments of the calls made
    traceID,       \* main(): first result of ParseTraceID
    err            \* main(): second result of ParseTraceID, "nil" or the message

configVars == <<workers, queueSize>>
collectorVars == <<ingestQueue, closed, spanPool, nextSlot, wg, numStarts, pc, batch,
                   stopPc, stopCalls, panicked, nextSpan, result, dequeued, written>>
mainVars == <<mainPc, mainSpan, args, traceID, err>>
vars == <<configVars, collectorVars, mainVars>>

\* ------------------------------------------------------------ pure helpers
\* &proto.Span{}: a record with every field at its zero value, in allocation `slot`.
NewRecord(slot) == [slot |-> slot, SpanID |-> 0, ParentSpanID |-> 0]

\* A mutant of Merge that fills only the fields dst leaves unset.
MergeKeepDst(dst, src) ==
    [slot |-> dst.slot,
     SpanID |-> IF dst.SpanID # 0 THEN dst.SpanID ELSE src.SpanID,
     ParentSpanID |-> IF dst.ParentSpanID # 0 THEN dst.ParentSpanID ELSE src.ParentSpanID]

\* proto.Merge(dst, src): every populated field of src overwrites dst's; a field
\* src leaves unset keeps dst's value.
Merge(dst, src) ==
    [slot |-> dst.slot,
     SpanID |-> IF src.SpanID # 0 THEN src.SpanID ELSE dst.SpanID,
     ParentSpanID |-> IF src.ParentSpanID # 0 THEN src.ParentSpanID ELSE dst.ParentSpanID]

\* A mutant of CanSend that admits one record more than the buffer holds.
CanSendOffByOne(q) == Len(q) <= queueSize

\* A mutant of CanSend in which a failed WriteBatch closes admission.
CanSendUnlessWriteFailed(q) ==
    /\ Len(q) < queueSize
    /\ \A w \in Workers : \A i \in DOMAIN written[w] : written[w][i].ok

\* case c.ingestQueue <- pooled: a send on an open buffered channel is ready
\* exactly when the buffer has room.
CanSend(q) == Len(q) < queueSize

\* A mutant of ShouldFlush that flushes one record late.
ShouldFlushLate(b) == Len(b) > MaxBatchSize

\* if len(batch) >= 256
ShouldFlush(b) == Len(b) >= MaxBatchSize

\* A mutant of BatchAppend that puts the new record in front.
BatchPrepend(b, span) == <<span>> \o b

\* batch = append(batch, span)
BatchAppend(b, span) == Append(b, span)

\* A mutant of Dequeue in which a receive leaves the record in the channel.
DequeueKeep(q) == q

\* span, ok := <-c.ingestQueue: the received record leaves the channel.
Dequeue(q) == Tail(q)

\* A mutant of ClosedAndDrained in which a receive reports the close while
\* records are still buffered.
ClosedOnly(q, isClosed) == isClosed

\* span, ok := <-c.ingestQueue gives ok = false: the channel is closed and its
\* buffer is empty.
ClosedAndDrained(q, isClosed) == isClosed /\ q = <<>>

\* A mutant of TickFlushes in which the ticker case never flushes.
TickNeverFlushes(b) == FALSE

\* case <-ticker.C: if len(batch) > 0
TickFlushes(b) == Len(b) > 0

\* A mutant of ResetBatch in which the slice is shared by all workers.
ResetAllBatches(b, w) == [v \in Workers |-> <<>>]

\* A mutant of ResetBatch in which the slice is not truncated.
KeepBatch(b, w) == b

\* batch = batch[:0] in worker w (and the slice of a worker that returned).
ResetBatch(b, w) == [b EXCEPT ![w] = <<>>]

\* A mutant of PoolAfterGet in which Get leaves the record in the pool.
PoolAfterGetKeep(pool, got) == pool

\* c.spanPool.Get(): the record returned is no longer the pool's.
PoolAfterGet(pool, got) == pool \ {got}

\* for i := 0; i < c.workers; i++: the number of iterations.
Launched(n) == IF n > 0 THEN n ELSE 0

\* A mutant of AfterWrite in which a failed write ends the worker.
AfterWriteStopOnError(site, ok) ==
    IF site = "flushFinal" \/ ~ok THEN "done" ELSE "select"

\* Where a worker goes when WriteBatch returns: the result is discarded, only
\* the call after the channel closed is followed by return.
AfterWrite(site, ok) == IF site = "flushFinal" THEN "done" ELSE "select"

\* The records spanPool.Get() may return: one that was Put, or a new one.
PoolChoices == spanPool \cup {NewRecord(nextSlot)}

Live(w) == pc[w] \in {"select", "flushFull", "flushTick", "flushFinal"}
InWrite(w) == pc[w] \in {"flushFull", "flushTick", "flushFinal"}

\* The lifecycle the Collector is in, read off the channel and the goroutines.
State ==
    IF closed THEN (IF stopPc = "returned" THEN "Stopped" ELSE "Stopping")
    ELSE IF numStarts > 0 THEN "Running" ELSE "Created"

\* ------------------------------------------------------------------ Init
\* A mutant of NewSpan that stores its two arguments in each other's field.
NewSpanSwapped(serviceName, operationName, id, now) ==
    [TraceID |-> <<>>, SpanID |-> id, ParentSpanID |-> <<>>,
     ServiceName |-> operationName, OperationName |-> serviceName,
     StartTimeUnixNano |-> now, DurationNanos |-> 0, Status |-> <<>>]

\* NewSpan(serviceName, operationName): the composite literal sets four
\* fields, Go leaves the others at their zero value; `id` is what
\* uuid.New().String() returned, `now` what time.Now().UnixNano() returned.
NewSpan(serviceName, operationName, id, now) ==
    [TraceID |-> <<>>, SpanID |-> id, ParentSpanID |-> <<>>,
     ServiceName |-> serviceName, OperationName |-> operationName,
     StartTimeUnixNano |-> now, DurationNanos |-> 0, Status |-> <<>>]

\* A mutant of ParseTraceID without the test for the empty string.
ParseTraceIDNoCheck(raw) == [id |-> raw, err |-> "nil"]

\* ParseTraceID(raw): its two results.
ParseTraceID(raw) ==
    IF raw = <<>> THEN [id |-> <<>>, err |-> "Error parsing trace ID"]
    ELSE [id |-> raw, err |-> "nil"]

\* main() before its first statement: span is not assigned yet.
NoSpan ==
    [TraceID |-> <<>>, SpanID |-> <<>>, ParentSpanID |-> <<>>,
     ServiceName |-> <<>>, OperationName |-> <<>>,
     StartTimeUnixNano |-> 0, DurationNanos |-> 0, Status |-> <<>>]
MainInit ==
    /\ mainPc = "start"
    /\ mainSpan = NoSpan
    /\ args = [serviceName |-> <<>>, operationName |-> <<>>, raw |-> <<>>]
    /\ traceID = <<>>
    /\ err = "nil"

\* NewCollector(w, q): make(chan *proto.Span, q) panics for a negative q,
\* gives an unbuffered channel for q = 0; w is stored as it is.
NewCollector(w, q) ==
    /\ workers = w
    /\ queueSize = q
    /\ ingestQueue = <<>>
    /\ closed = FALSE
    /\ spanPool = {}
    /\ nextSlot = 1
    /\ wg = 0
    /\ numStarts = 0
    /\ pc = [v \in Workers |-> "idle"]
    /\ batch = [v \in Workers |-> <<>>]
    /\ stopPc = "idle"
    /\ stopCalls = 0
    /\ panicked = IF q < 0 THEN "makechan: size out of range" ELSE ""
    /\ nextSpan = 1
    /\ result = [k \in SpanIDs |-> "none"]
    /\ dequeued = [v \in Workers |-> <<>>]
    /\ written = [v \in Workers |-> <<>>]

Init == NewCollector(WorkerCount, QueueCapacity) /\ MainInit

\* --------------------------------------------------------------- actions
\* Start(): wg.Add(1) and go c.ingestWorker(), c.workers times.
Start ==
    /\ panicked = ""
    /\ numStarts < MaxWorkers
    /\ (numStarts + 1) * Launched(workers) <= MaxWorkers
    /\ numStarts' = numStarts + 1
    /\ wg' = wg + Launched(workers)
    /\ pc' = [w \in Workers |->
                IF w \in (numStarts * Launched(workers) + 1) .. ((numStarts + 1) * Launched(workers))
                THEN "select" ELSE pc[w]]
    /\ UNCHANGED <<ingestQueue, closed, spanPool, nextSlot, batch, stopPc,
                   stopCalls, panicked, nextSpan, result, dequeued, written>>
    /\ UNCHANGED <<configVars, mainVars>>

\* Ingest(span): Get a record, Merge the span into it, then the non-blocking
\* send; a send on a closed channel panics.  The span offered carries the
\* SpanID nextSpan, and ParentSpanID `parent` (0: the field is unset).
Ingest(parent) ==
    /\ panicked = ""
    /\ nextSpan <= MaxSpans
    /\ \E got \in PoolChoices :
         LET span == [SpanID |-> nextSpan, ParentSpanID |-> parent]
             pooled == Merge(got, span)
         IN /\ nextSlot' = IF got \in spanPool THEN nextSlot ELSE nextSlot + 1
            /\ IF closed
               THEN /\ panicked' = "send on closed channel"
                    /\ result' = [result EXCEPT ![nextSpan] = "panic"]
                    /\ spanPool' = PoolAfterGet(spanPool, got)
                    /\ UNCHANGED <<ingestQueue, pc, batch, dequeued>>
               ELSE IF CanSend(ingestQueue)
               THEN /\ ingestQueue' = Append(ingestQueue, pooled)
                    /\ result' = [result EXCEPT ![nextSpan] = "ok"]
                    /\ spanPool' = PoolAfterGet(spanPool, got)
                    /\ UNCHANGED <<panicked, pc, batch, dequeued>>
               ELSE IF queueSize = 0 /\ \E w \in Workers : pc[w] = "select"
               THEN \* unbuffered channel: the send is ready when a worker
                    \* waits in its select, and hands the record to it
                    \E w \in {v \in Workers : pc[v] = "select"} :
                        LET b == BatchAppend(batch[w], pooled)
                        IN /\ batch' = [batch EXCEPT ![w] = b]
                           /\ dequeued' = [dequeued EXCEPT ![w] = Append(@, pooled)]
                           /\ pc' = [pc EXCEPT ![w] =
                                       IF ShouldFlush(b) THEN "flushFull" ELSE "select"]
                           /\ result' = [result EXCEPT ![nextSpan] = "ok"]
                           /\ spanPool' = PoolAfterGet(spanPool, got)
                           /\ UNCHANGED <<ingestQueue, panicked>>
               ELSE /\ spanPool' = PoolAfterGet(spanPool, got) \cup {pooled}
                    /\ result' = [result EXCEPT ![nextSpan] = "QueueFull"]
                    /\ UNCHANGED <<ingestQueue, panicked, pc, batch, dequeued>>
    /\ nextSpan' = nextSpan + 1
    /\ UNCHANGED <<closed, wg, numStarts, stopPc, stopCalls, written>>
    /\ UNCHANGED <<configVars, mainVars>>

\* Stop(), first half: close(c.ingestQueue); closing a closed channel panics.
StopClose ==
    /\ panicked = ""
    /\ stopCalls' = stopCalls + 1
    /\ IF closed
       THEN /\ panicked' = "close of closed channel"
            /\ UNCHANGED <<closed, stopPc>>
       ELSE /\ closed' = TRUE
            /\ stopPc' = "waiting"
            /\ UNCHANGED panicked
    /\ UNCHANGED <<ingestQueue, spanPool, nextSlot, wg, numStarts, pc, batch,
                   nextSpan, result, dequeued, written>>
    /\ UNCHANGED <<configVars, mainVars>>

\* Stop(), second half: c.wg.Wait() returns once the counter is zero.
StopWait ==
    /\ panicked = ""
    /\ stopPc = "waiting"
    /\ wg = 0
    /\ stopPc' = "returned"
    /\ UNCHANGED <<ingestQueue, closed, spanPool, nextSlot, wg, numStarts, pc,
                   batch, stopCalls, panicked, nextSpan, result, dequeued, written>>
    /\ UNCHANGED <<configVars, mainVars>>

\* case span, ok := <-c.ingestQueue with ok true: append, and flush a full batch.
Receive(w) ==
    /\ panicked = ""
    /\ pc[w] = "select"
    /\ ingestQueue # <<>>
    /\ LET span == Head(ingestQueue)
           b == BatchAppend(batch[w], span)
       IN /\ ingestQueue' = Dequeue(ingestQueue)
          /\ batch' = [batch EXCEPT ![w] = b]
          /\ dequeued' = [dequeued EXCEPT ![w] = Append(@, span)]
          /\ pc' = [pc EXCEPT ![w] = IF ShouldFlush(b) THEN "flushFull" ELSE "select"]
    /\ UNCHANGED <<closed, spanPool, nextSlot, wg, numStarts, stopPc, stopCalls,
                   panicked, nextSpan, result, written>>
    /\ UNCHANGED <<configVars, mainVars>>

\* case span, ok := <-c.ingestQueue with ok false (closed and drained): the
\* remaining batch goes to WriteBatch, whatever its length.
ReceiveClosed(w) ==
    /\ panicked = ""
    /\ pc[w] = "select"
    /\ ClosedAndDrained(ingestQueue, closed)
    /\ pc' = [pc EXCEPT ![w] = "flushFinal"]
    /\ UNCHANGED <<ingestQueue, closed, spanPool, nextSlot, wg, numStarts, batch,
                   stopPc, stopCalls, panicked, nextSpan, result, dequeued, written>>
    /\ UNCHANGED <<configVars, mainVars>>

\* case <-ticker.C: a non-empty batch goes to WriteBatch, an empty one does not.
Tick(w) ==
    /\ panicked = ""
    /\ pc[w] = "select"
    /\ pc' = [pc EXCEPT ![w] = IF TickFlushes(batch[w]) THEN "flushTick" ELSE "select"]
    /\ UNCHANGED <<ingestQueue, closed, spanPool, nextSlot, wg, numStarts, batch,
                   stopPc, stopCalls, panicked, nextSpan, result, dequeued, written>>
    /\ UNCHANGED <<configVars, mainVars>>

\* c.storage.WriteBatch(batch) returns, with success or with an error the
\* worker does not look at; then batch = batch[:0], or return and wg.Done()
\* (the batch of a goroutine that returned is gone with it).
WriteReturn(w, ok) ==
    /\ panicked = ""
    /\ InWrite(w)
    /\ written' = [written EXCEPT ![w] = Append(@, [batch |-> batch[w], ok |-> ok])]
    /\ batch' = ResetBatch(batch, w)
    /\ pc' = [pc EXCEPT ![w] = AfterWrite(pc[w], ok)]
    /\ wg' = IF AfterWrite(pc[w], ok) = "done" THEN wg - 1 ELSE wg
    /\ UNCHANGED <<ingestQueue, closed, spanPool, nextSlot, numStarts, stopPc,
                   stopCalls, panicked, nextSpan, result, dequeued>>
    /\ UNCHANGED <<configVars, mainVars>>

Next ==
    \/ Start
    \/ Ingest(0)
    \/ StopClose
    \/ StopWait
    \/ \E w \in Workers : Receive(w)
    \/ \E w \in Workers : ReceiveClosed(w)
    \/ \E w \in Workers : Tick(w)
    \/ \E w \in Workers, ok \in BOOLEAN : WriteReturn(w, ok)

Spec == Init /\ [][Next]_vars

\* main(), with the arguments of its two calls taken from all the strings up
\* to MaxLen rather than the two literals: span := collector.NewSpan(..)
MainNewSpan ==
    /\ mainPc = "start"
    /\ \E serviceName \in Strings, operationName \in Strings,
          id \in UUIDStrings, now \in Times :
          /\ mainSpan' = NewSpan(serviceName, operationName, id, now)
          /\ args' = [args EXCEPT !.serviceName = serviceName,
                                   !.operationName = operationName]
    /\ mainPc' = "newSpan"
    /\ UNCHANGED <<traceID, err, configVars, collectorVars>>

\* traceID, err := ParseTraceID(..); if err != nil { print; return }
MainParseTraceID ==
    /\ mainPc = "newSpan"
    /\ \E raw \in Strings :
          /\ traceID' = ParseTraceID(raw).id
          /\ err' = ParseTraceID(raw).err
          /\ args' = [args EXCEPT !.raw = raw]
          /\ mainPc' = IF ParseTraceID(raw).err # "nil" THEN "done" ELSE "parsed"
    /\ UNCHANGED <<mainSpan, configVars, collectorVars>>

\* span.TraceID = traceID, and the print that ends main.
MainSetTraceID ==
    /\ mainPc = "parsed"
    /\ mainSpan' = [mainSpan EXCEPT !.TraceID = traceID]
    /\ mainPc' = "done"
    /\ UNCHANGED <<args, traceID, err, configVars, collectorVars>>

MainNext ==
    \/ MainNewSpan
    \/ MainParseTraceID
    \/ MainSetTraceID

MainSpec == Init /\ [][MainNext]_vars

\* The collector for every kind of argument NewCollector accepts: negative,
\* zero and positive, for each of the two.
ConfigWorkers == {-1, 0, WorkerCount}
ConfigQueueSizes == {-1, 0, QueueCapacity}
ConfigInit ==
    /\ \E w \in ConfigWorkers, q \in ConfigQueueSizes : NewCollector(w, q)
    /\ MainInit

ConfigSpec == ConfigInit /\ [][Next]_vars

\* The goroutines the Go scheduler keeps running: a worker at its select takes
\* a ready case (a record, the closed channel, a tick that finds a batch), a
\* WriteBatch call returns, and wg.Wait() returns once the counter is zero.
\* Producers and the callers of Start and Stop are under no obligation.
Fairness ==
    /\ \A w \in Workers :
          /\ WF_vars(Receive(w))
          /\ WF_vars(ReceiveClosed(w))
          /\ WF_vars(Tick(w))
          /\ WF_vars(\E ok \in BOOLEAN : WriteReturn(w, ok))
    /\ WF_vars(StopWait)

FairSpec == Spec /\ Fairness

\* The collector used as its callers are meant to use it: Start before the
\* channel is closed (a repeated Start adds WorkerCount more workers on the
\* same channel, which is how several workers arise at WorkerCount = 1),
\* Ingest and one Stop while Running.
ScenarioNext ==
    \/ ~closed /\ Start
    \/ State = "Running" /\ Ingest(0)
    \/ State = "Running" /\ StopClose
    \/ StopWait
    \/ \E w \in Workers : Receive(w)
    \/ \E w \in Workers : ReceiveClosed(w)
    \/ \E w \in Workers : Tick(w)
    \/ \E w \in Workers, ok \in BOOLEAN : WriteReturn(w, ok)

ScenarioSpec == Init /\ [][ScenarioNext]_vars

\* The same collector with a ticker that keeps ticking and a sink whose
\* WriteBatch calls return; nothing obliges a producer to offer a span, a
\* worker to take one, or anyone to call Stop.
TimerFairness ==
    \A w \in Workers :
        /\ WF_vars(Tick(w))
        /\ WF_vars(\E ok \in BOOLEAN : WriteReturn(w, ok))

TimerFairSpec == ScenarioSpec /\ TimerFairness

\* ------------------------------------------------- observations for the claims
RECURSIVE Flatten(_)
\* The batches of a worker's WriteBatch calls, concatenated in call order.
Flatten(calls) ==
    IF calls = <<>> THEN <<>> ELSE Head(calls).batch \o Flatten(Tail(calls))

\* The SpanIDs of the records of a sequence.
IDs(records) == {records[i].SpanID : i \in DOMAIN records}

\* How often SpanID k occurs in a sequence of records.
Count(records, k) == Cardinality({i \in DOMAIN records : records[i].SpanID = k})

\* The spans whose Ingest returned nil.
Admitted == {k \in SpanIDs : result[k] = "ok"}

\* How often span k was passed to a WriteBatch call that has returned.
TimesWritten(k) ==
    LET n[w \in 0 .. MaxWorkers] ==
            IF w = 0 THEN 0 ELSE n[w - 1] + Count(Flatten(written[w]), k)
    IN n[MaxWorkers]

\* The number of records over all completed WriteBatch calls.
TotalWritten ==
    LET n[w \in 0 .. MaxWorkers] ==
            IF w = 0 THEN 0 ELSE n[w - 1] + Len(Flatten(written[w]))
    IN n[MaxWorkers]

\* The number of completed WriteBatch calls.
WriteBatchCalls ==
    LET n[w \in 0 .. MaxWorkers] ==
            IF w = 0 THEN 0 ELSE n[w - 1] + Len(written[w])
    IN n[MaxWorkers]

\* Scenario A has run: a queue-full of Ingest calls returned nil, the next one
\* found the queue full (so no record had been received in between: the calls
\* were back to back), no further call was made, and Stop() has returned.
ScenarioA ==
    /\ stopPc = "returned"
    /\ \A k \in SpanIDs :
          result[k] = IF k <= QueueCapacity THEN "ok"
                      ELSE IF k = QueueCapacity + 1 THEN "QueueFull" ELSE "none"

NoWriteFailed == \A w \in Workers : \A i \in DOMAIN written[w] : written[w][i].ok

\* The completed WriteBatch calls that returned an error, over all workers.
FailedWrites ==
    Cardinality({<<w, i>> \in Workers \X (1 .. MaxSpans + 1) :
                    i \in DOMAIN written[w] /\ ~written[w][i].ok})

\* What the code counts of them: ingestWorker calls c.storage.WriteBatch(batch)
\* as a statement, the error is not looked at, no counter is stepped.
flush_errors_total == 0

\* The counter spansIngested (infertrace_spans_ingested_total) is declared for
\* the Collector; the statement that steps it is not in the repository and is
\* taken to be what its name says, one step per Ingest that returned nil.
spans_ingested_total == Cardinality({k \in SpanIDs : result[k] = "ok"})

\* No counter of rejected spans and none of flushed batches is declared, and
\* neither Ingest's default branch nor ingestWorker steps one.
spans_dropped_queue_full_total == 0
batches_flushed_total == 0

\* Span k is in a worker's batch, a WriteBatch call in flight included.
TimesHeld(k) ==
    Cardinality({<<w, i>> \in Workers \X (1 .. MaxBatchSize) :
                    i \in DOMAIN batch[w] /\ batch[w][i].SpanID = k})

\* How many receives, over all workers, delivered span k.
TimesDequeued(k) ==
    Cardinality({<<w, i>> \in Workers \X (1 .. MaxSpans) :
                    i \in DOMAIN dequeued[w] /\ dequeued[w][i].SpanID = k})

\* A step in which WriteBatch returns to worker w.
WriteStep(w) == Len(written'[w]) = Len(written[w]) + 1

\* A step that is an Ingest call, a Start call, a second or later Stop call.
IngestStep == nextSpan' = nextSpan + 1
StartStep == numStarts' = numStarts + 1
RepeatedStopStep == stopCalls' = stopCalls + 1 /\ stopCalls >= 1

\* ------------------------------------------------------------------ claims

\* C1: once Stop() has completed, in a run where at most QueueCapacity spans
\* were admitted and no WriteBatch failed, every admitted span was passed to
\* WriteBatch exactly once and no other span was passed at all.
C1_AdmittedDeliveredOnce ==
    (stopPc = "returned" /\ Cardinality(Admitted) <= QueueCapacity /\ NoWriteFailed)
        => \A k \in SpanIDs : TimesWritten(k) = IF k \in Admitted THEN 1 ELSE 0

\* C2: Ingest never blocks: while spans remain to be offered an Ingest step is
\* possible whatever the workers are doing, and every Ingest call made has
\* completed with one of the results ok, QueueFull, NotRunning.
C2_IngestCompletesWithResult ==
    /\ (panicked = "" /\ nextSpan <= MaxSpans) => ENABLED Ingest(0)
    /\ \A k \in SpanIDs : result[k] \in {"none", "ok", "QueueFull", "NotRunning"}

\* C3: the queue never holds more than QueueCapacity records; in Running an
\* Ingest returns ok and appends the span at the tail exactly when fewer than
\* QueueCapacity records are queued, and otherwise returns QueueFull and
\* leaves the queue as it was.
C3_QueueBounded ==
    /\ [](Len(ingestQueue) <= QueueCapacity)
    /\ [][(IngestStep /\ State = "Running") =>
            IF Len(ingestQueue) < QueueCapacity
            THEN /\ result'[nextSpan] = "ok"
                 /\ Len(ingestQueue') = Len(ingestQueue) + 1
                 /\ SubSeq(ingestQueue', 1, Len(ingestQueue)) = ingestQueue
                 /\ ingestQueue'[Len(ingestQueue')].SpanID = nextSpan
            ELSE /\ result'[nextSpan] = "QueueFull"
                 /\ ingestQueue' = ingestQueue]_vars

\* C3 witness: a Running collector whose queue is full has rejected a span
\* after admitting others.
C3_Witness ==
    /\ State = "Running"
    /\ Len(ingestQueue) = QueueCapacity
    /\ \E k \in SpanIDs : result[k] = "QueueFull"
    /\ \E k \in SpanIDs : result[k] = "ok"

\* C4: no WriteBatch call, completed or in flight, receives more than
\* MaxBatchSize records, and no worker's batch ever holds more.
C4_BatchBounded ==
    \A w \in Workers :
        /\ Len(batch[w]) <= MaxBatchSize
        /\ \A i \in DOMAIN written[w] : Len(written[w][i].batch) <= MaxBatchSize

\* C4 witness: a WriteBatch call received a batch of exactly MaxBatchSize
\* records while another worker also holds a record.
C4_Witness ==
    \E w \in Workers :
        /\ \E i \in DOMAIN written[w] : Len(written[w][i].batch) = MaxBatchSize
        /\ \E v \in Workers \ {w} : Len(batch[v]) > 0

\* C5: a second or later Stop call does not panic and does not change what
\* was delivered.
C5_StopIdempotent ==
    [][RepeatedStopStep => (panicked' = "" /\ written' = written)]_vars

\* C6: an Ingest made outside Running fails with NotRunning and leaves the
\* queue and every worker batch unchanged.
C6_IngestOnlyInRunning ==
    [][(IngestStep /\ State # "Running") =>
            /\ result'[nextSpan] = "NotRunning"
            /\ ingestQueue' = ingestQueue
            /\ batch' = batch]_vars

\* C7: a Start made outside Created launches no worker and leaves the
\* lifecycle state unchanged, and at most WorkerCount workers are ever live.
C7_StartOnlyFromCreated ==
    /\ [](Cardinality({w \in Workers : Live(w)}) <= WorkerCount)
    /\ [][(StartStep /\ State # "Created") => (pc' = pc /\ State' = State)]_vars

\* C8: the lifecycle state only moves Created -> Running -> Stopping ->
\* Stopped, and no worker is live when it is Stopped.
C8_LifecycleOrder ==
    /\ [](State = "Stopped" => \A w \in Workers : ~Live(w))
    /\ [][State' # State =>
            <<State, State'>> \in {<<"Created", "Running">>,
                                   <<"Running", "Stopping">>,
                                   <<"Stopping", "Stopped">>}]_vars

\* C9: a span whose Ingest returned QueueFull or NotRunning is in no queue
\* slot, in no worker's batch and in no WriteBatch call, in any later state.
C9_RejectedNeverDelivered ==
    \A k \in SpanIDs :
        result[k] \in {"QueueFull", "NotRunning"} =>
            /\ k \notin IDs(ingestQueue)
            /\ \A w \in Workers :
                   k \notin IDs(batch[w]) \cup IDs(dequeued[w]) \cup IDs(Flatten(written[w]))

\* C9 witness: after a span was rejected, a later span was admitted in a
\* record taken back from the pool, and has been written.
C9_Witness ==
    \E k \in SpanIDs, j \in SpanIDs :
        /\ k < j
        /\ result[k] = "QueueFull"
        /\ result[j] = "ok"
        /\ nextSlot < nextSpan
        /\ \E w \in Workers : j \in IDs(Flatten(written[w]))

\* C10: a failing WriteBatch inside the loop leaves its worker at the select
\* with an empty batch, and whatever a worker dequeues is, in order, what it
\* passed to its WriteBatch calls followed by its current batch: nothing
\* dequeued after a failure is lost, and all of it is written by the time the
\* worker ends.
C10_FailedWriteKeepsWorker ==
    /\ [](\A w \in Workers : dequeued[w] = Flatten(written[w]) \o batch[w])
    /\ [][\A w \in Workers :
            (/\ pc[w] \in {"flushFull", "flushTick"}
             /\ Len(written'[w]) = Len(written[w]) + 1
             /\ ~written'[w][Len(written'[w])].ok)
                => (pc'[w] = "select" /\ batch'[w] = <<>>)]_vars

\* C10 witness: a worker whose WriteBatch failed has since dequeued another
\* span and passed it to a WriteBatch call that succeeded.
C10_Witness ==
    \E w \in Workers : \E i \in DOMAIN written[w] : \E j \in DOMAIN written[w] :
        /\ i < j
        /\ ~written[w][i].ok /\ written[w][i].batch # <<>>
        /\ written[w][j].ok /\ written[w][j].batch # <<>>

\* C11: when WriteBatch fails the batch is dropped and not retried:
\* flush_errors_total counts every failed call, and no span of a failed batch
\* is still queued, held in a batch or passed to another WriteBatch call.
C11_FailedBatchCountedAndDropped ==
    /\ flush_errors_total = FailedWrites
    /\ \A w \in Workers : \A i \in DOMAIN written[w] :
          ~written[w][i].ok =>
              \A k \in IDs(written[w][i].batch) :
                  /\ TimesWritten(k) = 1
                  /\ TimesHeld(k) = 0
                  /\ k \notin IDs(ingestQueue)

\* C12: every record spanPool.Get() can return, new or recycled, has all its
\* fields at their zero value.
C12_PoolRecordsAreReset ==
    \A r \in PoolChoices : r.SpanID = 0 /\ r.ParentSpanID = 0

\* C13: a record enters the pool only after a WriteBatch call that contained
\* it has returned successfully, and the record of a rejected Ingest is never
\* in the pool.
C13_PutOnlyAfterFlushSuccess ==
    /\ [](\A r \in spanPool : r.SpanID # 0 => result[r.SpanID] # "QueueFull")
    /\ [][\A r \in spanPool' \ spanPool :
            \E w \in Workers : \E i \in DOMAIN written'[w] :
                /\ written'[w][i].ok
                /\ \E j \in DOMAIN written'[w][i].batch :
                       written'[w][i].batch[j].slot = r.slot]_vars

\* C14: what a worker has passed to its WriteBatch calls, concatenated in call
\* order and followed by the batch it holds, is the sequence of its receives;
\* all of it is written when the worker has ended; and a worker receives in
\* admission order (SpanIDs increasing, the queued ones after the received).
C14_WorkerOrderPreserved ==
    \A w \in Workers :
        /\ Flatten(written[w]) \o batch[w] = dequeued[w]
        /\ pc[w] = "done" => Flatten(written[w]) = dequeued[w]
        /\ LET arrived == dequeued[w] \o ingestQueue
           IN \A i \in DOMAIN arrived : \A j \in DOMAIN arrived :
                  i < j => arrived[i].SpanID < arrived[j].SpanID

\* C14 witness: a worker has made two WriteBatch calls, the first with at
\* least two records, the second not empty, and has ended.
C14_Witness ==
    \E w \in Workers :
        /\ pc[w] = "done"
        /\ Len(written[w]) >= 2
        /\ Len(written[w][1].batch) >= 2
        /\ written[w][2].batch # <<>>

\* C15 as stated: after Scenario A with one worker, WriteBatch was invoked
\* exactly once, with the accepted spans in arrival order.
C15_ExactlyOneWriteBatch ==
    (ScenarioA /\ numStarts * WorkerCount = 1) =>
        /\ WriteBatchCalls = 1
        /\ [i \in DOMAIN written[1][1].batch |-> written[1][1].batch[i].SpanID]
               = [i \in 1 .. QueueCapacity |-> i]

\* C15, amended: after Scenario A the WriteBatch calls made, one or more,
\* carry together exactly the accepted spans, each once and none of the
\* rejected one, every worker's calls in arrival order; with one worker the
\* calls concatenated are the accepted spans in arrival order.
C15_AcceptedSpansWrittenInOrder ==
    ScenarioA =>
        /\ WriteBatchCalls >= 1
        /\ \A k \in SpanIDs : TimesWritten(k) = IF k <= QueueCapacity THEN 1 ELSE 0
        /\ \A w \in Workers :
              LET out == Flatten(written[w])
              IN \A i \in DOMAIN out : \A j \in DOMAIN out :
                     i < j => out[i].SpanID < out[j].SpanID
        /\ numStarts * WorkerCount = 1 =>
              [i \in DOMAIN Flatten(written[1]) |-> Flatten(written[1])[i].SpanID]
                  = [i \in 1 .. QueueCapacity |-> i]

\* C15 witness: Scenario A with one worker ended with two WriteBatch calls,
\* a tick having flushed the first accepted span before Stop().
C15_Witness ==
    /\ ScenarioA
    /\ numStarts * WorkerCount = 1
    /\ Len(written[1]) = 2
    /\ written[1][1].batch # <<>>
    /\ written[1][2].batch # <<>>

\* C16: an admitted span is in the queue or was received exactly once, by one
\* worker, and is then in exactly one batch or one WriteBatch call; once
\* Stop() has returned in a run where the queue was never full, the records
\* over all WriteBatch calls are the spans submitted, each once.
C16_ExclusiveOwnershipAndCount ==
    /\ \A k \in SpanIDs :
          /\ Count(ingestQueue, k) + TimesDequeued(k) = IF k \in Admitted THEN 1 ELSE 0
          /\ TimesHeld(k) + TimesWritten(k) = TimesDequeued(k)
    /\ (stopPc = "returned" /\ \A k \in SpanIDs : result[k] # "QueueFull") =>
          /\ TotalWritten = nextSpan - 1
          /\ \A k \in 1 .. (nextSpan - 1) : TimesWritten(k) = 1

\* C16 witness: Stop() has returned, the queue was never full, three or more
\* spans were submitted and two workers each wrote some of them.
C16_Witness ==
    /\ stopPc = "returned"
    /\ \A k \in SpanIDs : result[k] # "QueueFull"
    /\ nextSpan - 1 >= 3
    /\ \E w \in Workers : \E v \in Workers \ {w} :
          Flatten(written[w]) # <<>> /\ Flatten(written[v]) # <<>>

\* C17: a worker's non-empty batch is eventually flushed (passed to
\* WriteBatch and emptied), under fairness of the tick and of the sink's
\* return alone: also when no further span arrives and Stop() is never
\* called.
C17_PartialBatchEventuallyFlushed ==
    \A w \in Workers : (batch[w] # <<>>) ~> (batch[w] = <<>>)

\* C17 witness: with the channel open and empty, a tick has sent a worker's
\* partial batch to WriteBatch.
C17_Witness ==
    \E w \in Workers :
        /\ pc[w] = "flushTick"
        /\ ~closed
        /\ ingestQueue = <<>>
        /\ Len(batch[w]) < MaxBatchSize

\* C18: once Stop() has been called on a started collector, every worker
\* eventually ends and the collector becomes Stopped.
C18_StopTerminates ==
    (numStarts > 0 /\ State = "Stopping")
        ~> (State = "Stopped" /\ \A w \in Workers : ~Live(w))

\* C19: a worker sees the end of the queue only when the channel is closed
\* and empty, it ends only by returning from the WriteBatch call that carried
\* its remaining batch, and at Stopped the queue and every batch are empty.
C19_CloseKeepsQueuedSpans ==
    /\ [](State = "Stopped" =>
            (ingestQueue = <<>> /\ \A w \in Workers : batch[w] = <<>>))
    /\ [][\A w \in Workers :
            /\ (pc[w] = "select" /\ pc'[w] = "flushFinal")
                  => (closed /\ ingestQueue = <<>>)
            /\ (pc[w] # "done" /\ pc'[w] = "done")
                  => /\ pc[w] = "flushFinal"
                     /\ written'[w] = Append(written[w], [batch |-> batch[w], ok |-> TRUE])
                           \/ written'[w] = Append(written[w], [batch |-> batch[w], ok |-> FALSE])]_vars

\* C20: an Ingest on a closed queue returns NotRunning and leaves the queue
\* as it was, no Ingest ever ends in a panic, and once Stop() has returned
\* every span whose Ingest returned ok has been passed to WriteBatch.
C20_NoAcceptAfterClose ==
    /\ [](panicked # "send on closed channel")
    /\ [](stopPc = "returned" => \A k \in Admitted : TimesWritten(k) >= 1)
    /\ [][(IngestStep /\ closed) =>
            (result'[nextSpan] = "NotRunning" /\ ingestQueue' = ingestQueue)]_vars

\* C21: once the collector is Stopped no worker acts again: no receive, no
\* append to a batch, no WriteBatch call entered or returned, no worker
\* launched.
C21_NoWorkerStepAfterStopped ==
    [][State = "Stopped" =>
          (/\ ingestQueue' = ingestQueue
           /\ dequeued' = dequeued
           /\ batch' = batch
           /\ written' = written
           /\ pc' = pc)]_vars

\* C22: a collector built with a worker count or a queue capacity that is not
\* greater than zero does not exist: no Start, Ingest or Stop was ever made
\* on it, and it is never Running.
C22_InvalidConfigNeverRuns ==
    (workers <= 0 \/ queueSize <= 0) =>
        /\ State # "Running"
        /\ numStarts = 0 /\ nextSpan = 1 /\ stopCalls = 0

\* C23: what an Ingest call returns is a function of the lifecycle (channel
\* closed or not) and the queue occupancy at the call alone, and a WriteBatch
\* that fails changes nothing a later Ingest reads, nor anything else, that
\* the same call succeeding would not: runs that differ only in which
\* WriteBatch calls fail give every Ingest the same result.
C23_SinkErrorNotPropagated ==
    /\ [][IngestStep =>
            result'[nextSpan] =
                IF closed THEN "panic"
                ELSE IF Len(ingestQueue) < QueueCapacity THEN "ok" ELSE "QueueFull"]_vars
    /\ [][\A w \in Workers : WriteStep(w) =>
            /\ UNCHANGED <<ingestQueue, closed, spanPool, nextSlot, result,
                           nextSpan, panicked, numStarts, stopPc, dequeued>>
            /\ batch' = [batch EXCEPT ![w] = <<>>]
            /\ pc' = [pc EXCEPT ![w] = IF pc[w] = "flushFinal" THEN "done" ELSE "select"]
            /\ wg' = IF pc[w] = "flushFinal" THEN wg - 1 ELSE wg]_vars

\* C23 witness: a WriteBatch call has failed with spans in it, later spans
\* were offered, one admitted and one rejected, and the process lives.
C23_Witness ==
    /\ panicked = ""
    /\ \E w \in Workers : \E i \in DOMAIN written[w] :
          /\ ~written[w][i].ok
          /\ \E j \in IDs(written[w][i].batch) : \E k \in SpanIDs : \E l \in SpanIDs :
                j < k /\ j < l /\ result[k] = "ok" /\ result[l] = "QueueFull"

\* A step of worker w's loop: a receive, a tick that finds a batch, or a
\* WriteBatch return.
WorkerStep(w) ==
    \/ pc'[w] # pc[w]
    \/ batch'[w] # batch[w]
    \/ dequeued'[w] # dequeued[w]
    \/ written'[w] # written[w]

\* C24: a step of one worker's loop, a failing WriteBatch included, leaves
\* every other worker's batch, position, liveness and history as they were,
\* and changes nothing but that worker's own state, the queue and the
\* WaitGroup counter.
C24_WorkerIsolation ==
    [][\A w \in Workers : (WorkerStep(w) /\ ~StartStep /\ ~IngestStep) =>
            /\ \A v \in Workers \ {w} :
                  /\ batch'[v] = batch[v]
                  /\ pc'[v] = pc[v]
                  /\ Live(v)' = Live(v)
                  /\ dequeued'[v] = dequeued[v]
                  /\ written'[v] = written[v]
            /\ UNCHANGED <<closed, spanPool, nextSlot, numStarts, stopPc,
                           stopCalls, panicked, nextSpan, result>>]_vars

\* C24 witness: one worker's WriteBatch has failed while another worker,
\* still live, holds a batch of its own.
C24_Witness ==
    \E w \in Workers : \E v \in Workers \ {w} :
        /\ \E i \in DOMAIN written[w] : ~written[w][i].ok /\ written[w][i].batch # <<>>
        /\ Live(v)
        /\ batch[v] # <<>>

\* The records outside the pool's free set: those in the queue, then for each
\* worker those of its completed WriteBatch calls and of its batch (a call in
\* flight included).
AllHeld ==
    LET f[w \in 0 .. MaxWorkers] ==
            IF w = 0 THEN ingestQueue
            ELSE f[w - 1] \o Flatten(written[w]) \o batch[w]
    IN f[MaxWorkers]

\* The allocations a sequence or a set of records occupies.
SlotsOf(records) == {records[i].slot : i \in DOMAIN records}
PoolSlots == {r.slot : r \in spanPool}

\* C25: every record allocated is held by exactly one stage: no record is
\* twice among the queue, the batches and the WriteBatch calls, none of them
\* is in the pool's free set, every allocation is in one of these places
\* (unless the producer holding it died in its send), and no span of a
\* pooled record is at the same time queued, batched or written.
C25_ExclusiveOwnership ==
    /\ Cardinality(SlotsOf(AllHeld)) = Len(AllHeld)
    /\ Cardinality(PoolSlots) = Cardinality(spanPool)
    /\ SlotsOf(AllHeld) \cap PoolSlots = {}
    /\ SlotsOf(AllHeld) \cup PoolSlots \subseteq 1 .. (nextSlot - 1)
    /\ panicked # "send on closed channel" =>
          SlotsOf(AllHeld) \cup PoolSlots = 1 .. (nextSlot - 1)
    /\ {r.SpanID : r \in spanPool} \cap IDs(AllHeld) = {}

\* C25 witness: the record of a rejected span went to the pool, came back
\* from it for a later span and is now queued with that span, a worker
\* holding an earlier one.
C25_Witness ==
    /\ \E k \in SpanIDs : result[k] = "QueueFull"
    /\ \E i \in DOMAIN ingestQueue : ingestQueue[i].slot < ingestQueue[i].SpanID
    /\ \E w \in Workers : batch[w] # <<>>

\* C26: the span NewSpan returns has a non-empty SpanID, ServiceName and
\* OperationName equal to the two arguments, and TraceID, ParentSpanID,
\* DurationNanos and Status at their zero values, whatever the arguments.
C26_NewSpanFields ==
    mainPc = "newSpan" =>
        /\ mainSpan.SpanID # <<>>
        /\ mainSpan.ServiceName = args.serviceName
        /\ mainSpan.OperationName = args.operationName
        /\ mainSpan.TraceID = <<>>
        /\ mainSpan.ParentSpanID = <<>>
        /\ mainSpan.DurationNanos = 0
        /\ mainSpan.Status = <<>>

\* C26 witness: NewSpan has returned for two different arguments, the
\* service name not empty and the operation name empty.
C26_Witness ==
    /\ mainPc = "newSpan"
    /\ args.serviceName # <<>>
    /\ args.operationName = <<>>
    /\ mainSpan.StartTimeUnixNano > 0

\* C27: ParseTraceID returns an error, and the empty trace id, exactly when
\* raw is the empty string; for any other raw it returns raw and no error.
C27_ParseTraceIDErrorIffEmpty ==
    mainPc \in {"parsed", "done"} =>
        /\ (err # "nil") <=> (args.raw = <<>>)
        /\ args.raw = <<>> => traceID = <<>>
        /\ args.raw # <<>> => traceID = args.raw

\* C27 witness: ParseTraceID was given the empty string and main ended on
\* the error.
C27_Witness ==
    /\ mainPc = "done"
    /\ args.raw = <<>>
    /\ err = "Error parsing trace ID"
    /\ mainSpan.TraceID = <<>>

\* C28: a batch is empty until its worker starts, only a receive of its own
\* worker adds to it, and exactly the received record at the end; every
\* WriteBatch return, successful or not, leaves it empty; so no span that was
\* passed to a WriteBatch call is in the batch afterwards.
C28_BatchEmptyAfterFlush ==
    /\ [](\A w \in Workers :
            /\ pc[w] \in {"idle", "done"} => batch[w] = <<>>
            /\ IDs(batch[w]) \cap IDs(Flatten(written[w])) = {})
    /\ [][\A w \in Workers :
            /\ WriteStep(w) => batch'[w] = <<>>
            /\ (batch'[w] # batch[w] /\ ~WriteStep(w)) =>
                  /\ pc[w] = "select"
                  /\ ingestQueue # <<>>
                  /\ batch'[w] = Append(batch[w], Head(ingestQueue))
                  /\ dequeued'[w] = Append(dequeued[w], Head(ingestQueue))]_vars

\* C28 witness: after a WriteBatch that failed with spans in it, and one that
\* succeeded, the worker is back at its select with a new span in its batch.
C28_Witness ==
    \E w \in Workers :
        /\ pc[w] = "select"
        /\ batch[w] # <<>>
        /\ \E i \in DOMAIN written[w] : ~written[w][i].ok /\ written[w][i].batch # <<>>
        /\ \E i \in DOMAIN written[w] : written[w][i].ok /\ written[w][i].batch # <<>>

\* C29: no WriteBatch call, in flight or completed, carries an empty batch.
C29_NoEmptyWriteBatch ==
    \A w \in Workers :
        /\ InWrite(w) => batch[w] # <<>>
        /\ \A i \in DOMAIN written[w] : written[w][i].batch # <<>>

\* C30: spans_ingested_total is the number of Ingest calls that returned ok,
\* spans_dropped_queue_full_total the number that returned QueueFull,
\* batches_flushed_total and flush_errors_total the numbers of successful and
\* failed WriteBatch calls, and at Stopped spans_ingested_total is the number
\* of records over all WriteBatch calls, successful or failed.
C30_CounterConservation ==
    /\ spans_ingested_total = Cardinality(Admitted)
    /\ spans_dropped_queue_full_total
          = Cardinality({k \in SpanIDs : result[k] = "QueueFull"})
    /\ batches_flushed_total = WriteBatchCalls - FailedWrites
    /\ flush_errors_total = FailedWrites
    /\ State = "Stopped" => spans_ingested_total = TotalWritten
====
